---- MODULE Spec2Model ----
(***************************************************************************)
(* Model of packages/headless/src/graphql/apolloClient.ts: the module-load *)
(* endpoint check, createApolloClient, initializeApollo (hydrate and       *)
(* merge), the caller's queries on the returned client, addApolloState and  *)
(* useApollo.                                                              *)
(*                                                                         *)
(* JSON values are tagged records [t, v]:                                  *)
(*   t = "u"  undefined / null          (v = "")                           *)
(*   t = "s"  a scalar (string)         (v = the string)                   *)
(*   t = "a"  an array                  (v = a sequence of numbers)        *)
(*   t = "o"  a plain object            (v = a function key -> value)      *)
(* Keys are ordinary cache ids and field names (own enumerable string      *)
(* keys, none of them a name inherited from Object.prototype).             *)
(***************************************************************************)
EXTENDS Integers, Sequences, FiniteSets, TLC

VARIABLES
    window,         \* "object" in a browser, "undeclared" on the server
    env,            \* process.env: the two endpoint variables
    pc,             \* "load" before the module body ran, then "ready" or "failed"
    API_URL,        \* the module constant API_URL
    error,          \* the error the module body threw ("" if none)
    clients,        \* every ApolloClient constructed so far, in creation order
    apolloClient,   \* the module variable apolloClient: 0 (undefined) or an index into clients
    lastArg,        \* the argument of the initializeApollo call that ran last (NoCall otherwise)
    ret,            \* the client the last initializeApollo call returned (0: none)
    prims,          \* the cache primitives the last initializeApollo call invoked
    repeat,         \* TRUE iff the last call repeated the call right before it:
                    \* same argument, same client, nothing in between
    nQueries,       \* number of caller queries so far
    pageProps,      \* the structure last passed to addApolloState, as the call left it
    embedArg,       \* that structure as the caller passed it (NoCall: no call yet)
    embedClient,    \* the client passed to the last addApolloState call (0: none)
    embedRet,       \* what the last addApolloState call returned
    embedCache,     \* the cache that client held when the call was made
    pagePropsIn,    \* the props object the page component receives in the browser:
                    \* [gen: which delivery created the object, val: its content]
    hook,           \* the useMemo cell of useApollo: [mounted, gen, state, value]
    pageOp          \* the page-level operation that ran last

pageVars == <<pageProps, embedArg, embedClient, embedRet, embedCache, pagePropsIn, hook, pageOp>>

vars == <<window, env, pc, API_URL, error, clients, apolloClient, lastArg, ret, prims, repeat,
          nQueries, pageVars>>

----------------------------------------------------------------------------
(* Bounds *)

MaxClients == 2
MaxQueries == 2
MaxPages   == 2

----------------------------------------------------------------------------
(* JSON values *)

Undefined == [t |-> "u", v |-> ""]
Str(s)    == [t |-> "s", v |-> s]
Arr(q)    == [t |-> "a", v |-> q]
Obj(f)    == [t |-> "o", v |-> f]

EmptyFcn  == [k \in {} |-> Undefined]
EmptyObj  == Obj(EmptyFcn)

\* Object.keys(x) of a plain object
getKeys(x) == DOMAIN x.v

\* the partial functions from a subset of K to V
PartialFcns(K, V) == UNION {[D -> V] : D \in SUBSET K}

\* JavaScript truthiness: undefined, null and "" are falsy; objects, arrays
\* and non-empty strings are truthy
Truthy(x) == ~(x.t = "u" \/ (x.t = "s" /\ x.v = ""))

\* a || b
OrElse(a, b) == IF Truthy(a) THEN a ELSE b

----------------------------------------------------------------------------
(* deepmerge, as called by initializeApollo with arrayMerge: overwriteMerge *)

RECURSIVE deepmerge(_, _)
RECURSIVE mergeObject(_, _)
RECURSIVE cloneUnlessOtherwiseSpecified(_)

isArray(x) == x.t = "a"

\* a non-null object that is no RegExp, Date or React element
isMergeableObject(x) == x.t \in {"a", "o"}

emptyTarget(x) == IF isArray(x) THEN Arr(<<>>) ELSE EmptyObj

\* key in object; the operator throws on a primitive and the throw is caught
propertyIsOnObject(object, key) ==
    IF object.t = "o" THEN key \in DOMAIN object.v ELSE FALSE

\* an arrayMerge that keeps the target (snapshot) array
snapshotArrayWins(target, source) == target

\* deepmerge's default arrayMerge: concatenation
concatMerge(target, source) == Arr(target.v \o source.v)

\* the arrayMerge option of line 72: the source array, whatever the target holds
overwriteMerge(target, source) == source

\* the clone: false option: values are passed on as they are
cloneNever(value) == value

cloneUnlessOtherwiseSpecified(value) ==
    IF isMergeableObject(value)
    THEN deepmerge(emptyTarget(value), value)
    ELSE value

mergeObject(target, source) ==
    LET tkeys == IF target.t = "o" THEN getKeys(target) ELSE {}
        skeys == getKeys(source)
    IN  Obj([key \in tkeys \cup skeys |->
              IF key \in skeys
              THEN IF propertyIsOnObject(target, key) /\ isMergeableObject(source.v[key])
                   THEN deepmerge(target.v[key], source.v[key])
                   ELSE cloneUnlessOtherwiseSpecified(source.v[key])
              ELSE cloneUnlessOtherwiseSpecified(target.v[key])])

deepmerge(target, source) ==
    IF isArray(source) # isArray(target)
    THEN cloneUnlessOtherwiseSpecified(source)
    ELSE IF isArray(source)
         THEN overwriteMerge(target, source)
         ELSE mergeObject(target, source)

----------------------------------------------------------------------------
(* Inputs *)

Keys   == {"Post:1", "list"}

\* what a caller's query may write under a key
QueryVals == { Str("A"), Arr(<<1, 2, 3>>),
               Obj([title |-> Str("A"), list |-> Arr(<<1, 2, 3>>)]) }

\* what a snapshot may hold under a key
SnapVals  == { Str("B"), Arr(<<9>>),
               Obj([title |-> Str("B"), list |-> Arr(<<9>>), body |-> Str("X")]) }

\* key-value snapshots, the empty one included
KVSnapshots == { Obj(f) : f \in PartialFcns(Keys, SnapVals) }

\* values that are no key-value structure
Malformed == { Str("oops"), Arr(<<9>>) }

Snapshots == KVSnapshots \cup Malformed \cup {Undefined}

NoCall == [t |-> "none", v |-> ""]

\* the values process.env may hold for the two endpoint variables
PublicValues == { Undefined, Str("https://public/graphql") }
ServerValues == { Undefined, Str("https://server/graphql") }

----------------------------------------------------------------------------
(* Module load, lines 10-19 *)

MsgPublic == "NEXT_PUBLIC_WORDPRESS_API_URL environment variable is not set"
MsgServer == "WORDPRESS_API_URL and NEXT_PUBLIC_WORDPRESS_API_URL environment variables are not set"
MsgReferenceError == "ReferenceError: window is not defined"

\* line 10
resolveApiUrl(e) == OrElse(e.NEXT_PUBLIC_WORDPRESS_API_URL, e.WORDPRESS_API_URL)

\* a load check that never fires
endpointNeverMissing(url) == FALSE

\* line 13: !API_URL
endpointMissing(url) == ~Truthy(url)

\* lines 14-18: evaluating the identifier window where none is declared throws
\* a ReferenceError before either message is built
loadError(w) ==
    IF w = "undeclared" THEN MsgReferenceError
    ELSE IF w = "object" THEN MsgPublic
    ELSE MsgServer

\* typeof window === 'undefined'
typeofWindowUndefined(w) == w = "undeclared"

NoPage == [gen |-> 0, val |-> Undefined]
Unmounted == [mounted |-> FALSE, gen |-> 0, state |-> Undefined, value |-> 0]

Init ==
    /\ pageProps = Undefined
    /\ embedArg = NoCall
    /\ embedClient = 0
    /\ embedRet = Undefined
    /\ embedCache = Undefined
    /\ pagePropsIn = NoPage
    /\ hook = Unmounted
    /\ pageOp = "none"
    /\ window \in {"object", "undeclared"}
    /\ env \in [NEXT_PUBLIC_WORDPRESS_API_URL : PublicValues, WORDPRESS_API_URL : ServerValues]
    /\ pc = "load"
    /\ API_URL = Undefined
    /\ error = ""
    /\ clients = <<>>
    /\ apolloClient = 0
    /\ lastArg = NoCall
    /\ ret = 0
    /\ prims = <<>>
    /\ repeat = FALSE
    /\ nQueries = 0

LoadModule ==
    /\ pc = "load"
    /\ API_URL' = resolveApiUrl(env)
    /\ IF endpointMissing(resolveApiUrl(env))
       THEN /\ pc' = "failed"
            /\ error' = loadError(window)
       ELSE /\ pc' = "ready"
            /\ error' = ""
    /\ UNCHANGED <<window, env, clients, apolloClient, lastArg, ret, prims, repeat, nQueries>>
    /\ UNCHANGED pageVars

----------------------------------------------------------------------------
(* createApolloClient, lines 24-32 *)

\* a client bound to the server-only variable instead of API_URL
createApolloClientServerOnlyUrl ==
    [ ssrMode |-> typeofWindowUndefined(window),
      uri     |-> env.WORDPRESS_API_URL,
      cache   |-> EmptyObj ]

createApolloClient ==
    [ ssrMode |-> typeofWindowUndefined(window),
      uri     |-> API_URL,
      cache   |-> EmptyObj ]

----------------------------------------------------------------------------
(* initializeApollo, lines 63-90 *)

\* a guard that hydrates on every call
hasInitialStateAlways(initialState) == TRUE

\* line 68: if (initialState)
hasInitialState(initialState) == Truthy(initialState)

\* line 70: _apolloClient.extract()
extract(client) == client.cache

\* the merge with its arguments swapped: the snapshot is merged over the cache
mergedDataSnapshotWins(initialState, existingCache) ==
    IF initialState.t \in {"o", "a"}
    THEN deepmerge(existingCache, initialState)
    ELSE existingCache

\* no merge: the snapshot alone is restored
mergedDataSnapshotOnly(initialState, existingCache) ==
    IF initialState.t = "o" THEN initialState ELSE existingCache

\* lines 77-79: merge(initialState, existingCache, {arrayMerge: overwriteMerge})
mergedData(initialState, existingCache) == deepmerge(initialState, existingCache)

\* line 82: _apolloClient.cache.restore(data)
restore(client, data) == [client EXCEPT !.cache = data]

\* lines 68-83
hydrate(client, initialState) ==
    IF hasInitialState(initialState)
    THEN restore(client, mergedData(initialState, extract(client)))
    ELSE client

\* a context test that never takes the server path
returnsBeforeMemoizeNever(w) == FALSE

\* line 85: the server path returns before the memoization of line 87
returnsBeforeMemoize(w) == typeofWindowUndefined(w)

\* a memoization that never stores the client
memoizeNever(current, c) == current

\* line 87: if (!apolloClient) apolloClient = _apolloClient
memoize(current, c) == IF current = 0 THEN c ELSE current

InitializeApollo(initialState) ==
    /\ pc = "ready"
    /\ apolloClient = 0 => Len(clients) < MaxClients
    /\ LET created  == apolloClient = 0
           c        == IF created THEN Len(clients) + 1 ELSE apolloClient
           before   == IF created THEN Append(clients, createApolloClient) ELSE clients
       IN  /\ clients' = [before EXCEPT ![c] = hydrate(before[c], initialState)]
           /\ apolloClient' = IF returnsBeforeMemoize(window)
                              THEN apolloClient
                              ELSE memoize(apolloClient, c)
           /\ ret' = c
           /\ repeat' = (lastArg = initialState /\ ret = c)
    /\ lastArg' = initialState
    /\ prims' = IF hasInitialState(initialState)
                THEN <<"extract", "merge", "restore">>
                ELSE <<>>
    /\ UNCHANGED <<window, env, pc, API_URL, error, nQueries>>

----------------------------------------------------------------------------
(* The caller's queries on a returned client, lines 49-54 and 99-101 *)

Query(c, key, value) ==
    /\ pc = "ready"
    /\ c \in 1..Len(clients)
    /\ nQueries < MaxQueries
    /\ clients' = [clients EXCEPT ![c].cache =
                      Obj([k \in getKeys(@) \cup {key} |->
                              IF k = key THEN value ELSE @.v[k]])]
    /\ nQueries' = nQueries + 1
    /\ lastArg' = NoCall
    /\ ret' = 0
    /\ prims' = <<>>
    /\ repeat' = FALSE
    /\ UNCHANGED <<window, env, pc, API_URL, error, apolloClient>>
    /\ UNCHANGED pageVars

----------------------------------------------------------------------------
(* addApolloState, lines 110-116 *)

\* line 8
APOLLO_STATE_PROP_NAME == "__APOLLO_STATE__"

\* obj[key] of a plain object (undefined when the key is absent)
get(obj, key) ==
    IF obj.t = "o" /\ key \in DOMAIN obj.v THEN obj.v[key] ELSE Undefined

\* obj[key] = value on a plain object, every other entry kept
set(obj, key, value) ==
    Obj([k \in DOMAIN obj.v \cup {key} |-> IF k = key THEN value ELSE obj.v[k]])

\* line 111: pageProps?.props
hasProps(pp) == Truthy(get(pp, "props"))

\* an embedder that writes the snapshot beside props instead of into it
embedTopLevel(client, pp) ==
    IF hasProps(pp) THEN set(pp, APOLLO_STATE_PROP_NAME, client.cache) ELSE pp

\* an embedder that replaces props by an object holding the snapshot only
embedReplacesProps(client, pp) ==
    IF hasProps(pp)
    THEN set(pp, "props", set(EmptyObj, APOLLO_STATE_PROP_NAME, client.cache))
    ELSE pp

\* lines 111-115: the structure after the call, which is also what it returns
embed(client, pp) ==
    IF hasProps(pp)
    THEN set(pp, "props", set(get(pp, "props"), APOLLO_STATE_PROP_NAME, extract(client)))
    ELSE pp

\* the structures a data-fetching function may pass
PagePropsInputs ==
    { Undefined,
      Obj([revalidate |-> Str("1")]),
      Obj([props |-> Str("")]),
      Obj([props |-> EmptyObj, revalidate |-> Str("1")]),
      Obj([props |-> Obj([preview |-> Str("yes")]), revalidate |-> Str("1")]),
      Obj([props |-> Obj(("preview" :> Str("yes")) @@
                         (APOLLO_STATE_PROP_NAME :> Obj([list |-> Arr(<<9>>)])))]) }

AddApolloState(c, pp) ==
    /\ pc = "ready"
    /\ c \in 1..Len(clients)
    /\ pageProps' = embed(clients[c], pp)
    /\ embedRet' = embed(clients[c], pp)
    /\ embedArg' = pp
    /\ embedClient' = c
    /\ embedCache' = extract(clients[c])
    /\ pageOp' = "embed"
    /\ UNCHANGED <<window, env, pc, API_URL, error, clients, apolloClient, lastArg, ret,
                   prims, repeat, nQueries, pagePropsIn, hook>>

----------------------------------------------------------------------------
(* The rendering layer: the props a data-fetching function returned reach   *)
(* the page component in the browser (lines 98-108), later navigations      *)
(* bring new props objects.                                                 *)

\* the page output of the server process is loaded by a browser process,
\* whose module state starts afresh
DeliverPage ==
    /\ pc = "ready"
    /\ typeofWindowUndefined(window)
    /\ hasProps(pageProps)
    /\ window' = "object"
    /\ pc' = "load"
    /\ API_URL' = Undefined
    /\ clients' = <<>>
    /\ apolloClient' = 0
    /\ lastArg' = NoCall
    /\ ret' = 0
    /\ prims' = <<>>
    /\ repeat' = FALSE
    /\ pagePropsIn' = [gen |-> 1, val |-> get(pageProps, "props")]
    /\ hook' = Unmounted
    /\ pageOp' = "deliver"
    /\ UNCHANGED <<env, error, nQueries, pageProps, embedArg, embedClient, embedRet, embedCache>>

\* a client-side navigation hands the page component a new props object
Navigate(state) ==
    /\ pc = "ready"
    /\ ~typeofWindowUndefined(window)
    /\ pagePropsIn.gen \in 1..(MaxPages - 1)
    /\ pagePropsIn' = [gen |-> pagePropsIn.gen + 1,
                       val |-> IF state = Undefined
                               THEN Obj([preview |-> Str("yes")])
                               ELSE Obj(("preview" :> Str("yes")) @@
                                        (APOLLO_STATE_PROP_NAME :> state))]
    /\ pageOp' = "navigate"
    /\ UNCHANGED <<window, env, pc, API_URL, error, clients, apolloClient, lastArg, ret,
                   prims, repeat, nQueries, pageProps, embedArg, embedClient, embedRet, embedCache, hook>>

----------------------------------------------------------------------------
(* useApollo, lines 123-127 *)

\* a reader that looks the snapshot up under another key
readStateOtherKey(pp) == get(pp, "apolloState")

\* line 124
readState(pp) == get(pp, APOLLO_STATE_PROP_NAME)

\* a dependency test that always reports a change
depsUnchangedNever(cell, gen, state) == FALSE

\* line 126, the dependency list [state] compared with Object.is: objects and
\* arrays by identity (the props object they came with), primitives by value
depsUnchanged(cell, gen, state) ==
    /\ cell.mounted
    /\ IF state.t \in {"o", "a"}
       THEN cell.state.t \in {"o", "a"} /\ cell.gen = gen
       ELSE cell.state = state

UseApollo ==
    /\ pc = "ready"
    /\ pagePropsIn.gen # 0
    /\ LET state == readState(pagePropsIn.val)
       IN  IF depsUnchanged(hook, pagePropsIn.gen, state)
           THEN /\ pageOp' = "memoized"
                /\ UNCHANGED <<window, env, pc, API_URL, error, clients, apolloClient,
                               lastArg, ret, prims, repeat, nQueries, hook>>
           ELSE /\ InitializeApollo(state)
                /\ hook' = [mounted |-> TRUE, gen |-> pagePropsIn.gen,
                            state |-> state, value |-> ret']
                /\ pageOp' = "computed"
    /\ UNCHANGED <<pageProps, embedArg, embedClient, embedRet, embedCache, pagePropsIn>>

----------------------------------------------------------------------------

Next ==
    \/ LoadModule
    \/ \E initialState \in Snapshots : InitializeApollo(initialState) /\ UNCHANGED pageVars
    \/ \E c \in 1..MaxClients, key \in Keys, value \in QueryVals : Query(c, key, value)

Spec == Init /\ [][Next]_vars

\* a getStaticProps-style server pass (initializeApollo(), queries,
\* addApolloState) followed by the page running in the browser
ServerArgs == {Undefined}

\* the snapshots later navigations bring
NavStates == { Undefined, EmptyObj, Obj([list |-> Arr(<<9>>)]),
               Obj("Post:1" :> Obj([title |-> Str("B"), list |-> Arr(<<9>>), body |-> Str("X")])) }

NextPage ==
    \/ LoadModule
    \/ \E initialState \in ServerArgs :
          /\ typeofWindowUndefined(window)
          /\ InitializeApollo(initialState)
          /\ UNCHANGED pageVars
    \/ \E c \in 1..MaxClients, key \in Keys, value \in QueryVals :
          typeofWindowUndefined(window) /\ Query(c, key, value)
    \/ \E c \in 1..MaxClients, pp \in PagePropsInputs :
          typeofWindowUndefined(window) /\ AddApolloState(c, pp)
    \/ DeliverPage
    \/ \E state \in NavStates : Navigate(state)
    \/ UseApollo

SpecPage == Init /\ [][NextPage]_vars

RECURSIVE Owned(_, _)
\* the value x with every array and object of it marked as an object of the
\* structure owner: a marked node that shows up elsewhere is that very object,
\* passed by reference; the objects deepmerge constructs carry no mark
Owned(x, owner) ==
    IF x.t = "a" THEN [t |-> "a", v |-> x.v, own |-> owner]
    ELSE IF x.t = "o"
         THEN [t |-> "o", v |-> [k \in DOMAIN x.v |-> Owned(x.v[k], owner)], own |-> owner]
         ELSE x

\* calls and queries with object identity tracked: the snapshots are
\* structures of the caller, the values a query writes are objects of the cache
NextRef ==
    \/ LoadModule
    \/ \E initialState \in Snapshots :
          InitializeApollo(Owned(initialState, "snapshot")) /\ UNCHANGED pageVars
    \/ \E c \in 1..MaxClients, key \in Keys, value \in QueryVals :
          Query(c, key, Owned(value, "cache"))

SpecRef == Init /\ [][NextRef]_vars

TypeOK ==
    /\ pc \in {"load", "ready", "failed"}
    /\ apolloClient \in 0..Len(clients)
    /\ Len(clients) <= MaxClients

----------------------------------------------------------------------------
(* Properties *)

\* a step of initializeApollo that changed the state
CallStep == pc = "ready" /\ lastArg' # NoCall /\ vars' # vars

\* the cache the called client held before the call (empty if the call created it)
ExistingCache == IF ret' <= Len(clients) THEN clients[ret'].cache ELSE EmptyObj

\* the cache the returned client holds after the call
ReturnedCache == clients'[ret'].cache

InServer == window = "undeclared"
InClient == window = "object"

\* C1: on the server every initializeApollo call returns a newly created
\* client whose cache holds nothing but entries of the snapshot of that call,
\* and the call leaves every client created earlier (its cache included) as
\* it was.
C1_ServerIsolation ==
    [][(InServer /\ CallStep) =>
          /\ ret' = Len(clients) + 1
          /\ Len(clients') = Len(clients) + 1
          /\ \A i \in 1..Len(clients) : clients'[i] = clients[i]
          /\ \A k \in getKeys(ReturnedCache) :
                /\ lastArg'.t = "o"
                /\ k \in getKeys(lastArg')
                /\ ReturnedCache.v[k] = lastArg'.v[k]
          /\ lastArg'.t = "o" => getKeys(ReturnedCache) = getKeys(lastArg')]_vars

C1_Witness ==
    /\ InServer
    /\ Len(clients) = 2
    /\ ret = 2
    /\ lastArg = Obj([list |-> Arr(<<9>>)])
    /\ clients[2].cache = lastArg
    /\ getKeys(clients[1].cache) = {"Post:1"}
    /\ clients[1].cache.v["Post:1"] = Str("B")

\* C2: in the browser at most one client is ever constructed; once memoized
\* the reference never changes, and every call returns the memoized client.
C2_ClientSingleton ==
    [][InClient =>
          /\ Len(clients') <= 1
          /\ apolloClient # 0 =>
                /\ apolloClient' = apolloClient
                /\ Len(clients') = Len(clients)
                /\ clients'[1].uri = clients[1].uri
          /\ CallStep => (ret' = 1 /\ apolloClient' = 1)]_vars

C2_Witness ==
    /\ InClient
    /\ apolloClient = 1
    /\ ret = 1
    /\ nQueries = 2
    /\ lastArg = Obj([list |-> Arr(<<9>>)])
    /\ Len(clients) = 1

RECURSIVE ExistingArraysKept(_, _, _)
\* wherever the existing value e and the snapshot value s both hold an array,
\* the merged value m holds e's array
ExistingArraysKept(e, s, m) ==
    IF e.t = "a" /\ s.t = "a" THEN m = e
    ELSE IF e.t = "o" /\ s.t = "o"
         THEN /\ m.t = "o"
              /\ \A k \in getKeys(e) \cap getKeys(s) :
                    k \in getKeys(m) /\ ExistingArraysKept(e.v[k], s.v[k], m.v[k])
         ELSE TRUE

\* C3: after a call with a key-value snapshot, every array held by both the
\* existing cache and the snapshot is the existing cache's array, and every
\* key the existing cache lacked holds the snapshot's value.
C3_ArraysOverwritten ==
    [][(CallStep /\ lastArg'.t = "o") =>
          /\ ExistingArraysKept(ExistingCache, lastArg', ReturnedCache)
          /\ \A k \in getKeys(lastArg') \ getKeys(ExistingCache) :
                k \in getKeys(ReturnedCache) /\ ReturnedCache.v[k] = lastArg'.v[k]]_vars

C3_Witness ==
    /\ ret # 0
    /\ lastArg = Obj(("list" :> Arr(<<9>>)) @@ ("Post:1" :> Str("B")))
    /\ clients[ret].cache = Obj(("list" :> Arr(<<1, 2, 3>>)) @@ ("Post:1" :> Str("B")))

\* C4 as stated: after a call with a key-value snapshot, every key held by
\* both whose existing value is a scalar or an object holds the existing
\* cache's value.
C4_ExistingValueWins ==
    [][(CallStep /\ lastArg'.t = "o") =>
          \A k \in getKeys(lastArg') \cap getKeys(ExistingCache) :
              ExistingCache.v[k].t \in {"s", "o"} =>
                  ReturnedCache.v[k] = ExistingCache.v[k]]_vars

RECURSIVE ExistingWins(_, _, _)
\* m is e where e and s are not both objects; where both are, m has the
\* fields of both, each field of e with e's value (recursively) and each
\* field only s has with s's value
ExistingWins(e, s, m) ==
    IF e.t = "o" /\ s.t = "o"
    THEN /\ m.t = "o"
         /\ getKeys(m) = getKeys(e) \cup getKeys(s)
         /\ \A k \in getKeys(e) \cap getKeys(s) : ExistingWins(e.v[k], s.v[k], m.v[k])
         /\ \A k \in getKeys(e) \ getKeys(s) : m.v[k] = e.v[k]
         /\ \A k \in getKeys(s) \ getKeys(e) : m.v[k] = s.v[k]
    ELSE m = e

\* C4 amended: after a call with a key-value snapshot, a key held by both
\* keeps the existing value when that value is a scalar or when the two values
\* are not both objects; when both are objects the merged value is their
\* field-by-field merge, the existing value winning in every field both have
\* and the fields only the snapshot has being added.
C4_ExistingWinsFieldwise ==
    [][(CallStep /\ lastArg'.t = "o") =>
          \A k \in getKeys(lastArg') \cap getKeys(ExistingCache) :
              ExistingCache.v[k].t \in {"s", "o"} =>
                  ExistingWins(ExistingCache.v[k], lastArg'.v[k], ReturnedCache.v[k])]_vars

C4_Witness ==
    /\ ret # 0
    /\ lastArg = Obj(("list" :> Str("B")) @@
                     ("Post:1" :> Obj([title |-> Str("B"), list |-> Arr(<<9>>), body |-> Str("X")])))
    /\ clients[ret].cache =
          Obj(("list" :> Str("A")) @@
              ("Post:1" :> Obj([title |-> Str("A"), list |-> Arr(<<1, 2, 3>>), body |-> Str("X")])))

\* C5: a call that repeats the call right before it (same snapshot, same
\* client) leaves every client's cache as the first of the two calls left it.
C5_HydrationIdempotent ==
    [][(CallStep /\ repeat') => clients' = clients]_vars

C5_Witness ==
    /\ repeat
    /\ ret # 0
    /\ lastArg = Obj(("list" :> Arr(<<9>>)) @@
                     ("Post:1" :> Obj([title |-> Str("B"), list |-> Arr(<<9>>), body |-> Str("X")])))
    /\ clients[ret].cache =
          Obj(("list" :> Arr(<<1, 2, 3>>)) @@
              ("Post:1" :> Obj([title |-> Str("A"), list |-> Arr(<<1, 2, 3>>), body |-> Str("X")])))

\* C6: after a call with a key-value snapshot or with none, the keys of the
\* returned client's cache are the keys cached before the call together with
\* the keys of the snapshot.
C6_KeySetIsUnion ==
    [][(CallStep /\ lastArg'.t \in {"o", "u"}) =>
          getKeys(ReturnedCache) =
              getKeys(ExistingCache) \cup (IF lastArg'.t = "o" THEN getKeys(lastArg') ELSE {})]_vars

C6_Witness ==
    /\ ret # 0
    /\ lastArg = Obj([list |-> Arr(<<9>>)])
    /\ clients[ret].cache = Obj(("list" :> Arr(<<9>>)) @@ ("Post:1" :> Str("A")))

\* C7: a call without a snapshot raises no error, invokes none of extract,
\* merge and restore, and leaves the cache of the returned client as it was
\* (empty when the call created the client).
C7_NoSnapshotNoChange ==
    [][(CallStep /\ lastArg' = Undefined) =>
          /\ prims' = <<>>
          /\ error' = ""
          /\ pc' = "ready"
          /\ ReturnedCache = ExistingCache
          /\ \A i \in 1..Len(clients) : clients'[i] = clients[i]]_vars

C7_Witness ==
    /\ lastArg = Undefined
    /\ ret = 1
    /\ apolloClient = 1
    /\ prims = <<>>
    /\ clients[1].cache = Obj([list |-> Arr(<<1, 2, 3>>)])

\* C8: a call with the empty snapshot, or with a snapshot that is no
\* key-value structure, raises no error and leaves the cache of the returned
\* client equal to what it was.
C8_MalformedSnapshotNoChange ==
    [][(CallStep /\ lastArg' \in Malformed \cup {EmptyObj}) =>
          /\ error' = ""
          /\ pc' = "ready"
          /\ ReturnedCache = ExistingCache]_vars

C8_Witness ==
    /\ lastArg = Arr(<<9>>)
    /\ ret = 1
    /\ apolloClient = 1
    /\ prims = <<"extract", "merge", "restore">>
    /\ clients[1].cache = Obj([list |-> Arr(<<1, 2, 3>>)])

\* C9: when no endpoint is configured the error raised names the server-only
\* variable on the server and the public variable in the browser.
C9_ErrorNamesContext ==
    pc = "failed" =>
        /\ InServer => error = MsgServer
        /\ InClient => error = MsgPublic

\* C10: with neither endpoint variable set the module load fails in either
\* context and stays failed: no endpoint is resolved, no client is ever
\* constructed or memoized, and nothing is returned.
C10_MissingEndpointIsFatal ==
    (~Truthy(env.NEXT_PUBLIC_WORDPRESS_API_URL) /\ ~Truthy(env.WORDPRESS_API_URL)) =>
        /\ pc \in {"load", "failed"}
        /\ pc = "failed" => error # ""
        /\ API_URL = Undefined
        /\ clients = <<>>
        /\ apolloClient = 0
        /\ ret = 0

C10_Witness ==
    /\ pc = "failed"
    /\ error # ""
    /\ env.NEXT_PUBLIC_WORDPRESS_API_URL = Undefined
    /\ env.WORDPRESS_API_URL = Undefined
    /\ clients = <<>>

\* C12: in the browser, once a client exists, a call without a snapshot
\* returns that same memoized client and every entry of its cache (an entity
\* hydrated from an earlier snapshot included) is still there with the same
\* value.
C12_HydrationPersists ==
    [][(InClient /\ CallStep /\ lastArg' = Undefined /\ Len(clients) >= 1) =>
          /\ ret' = 1
          /\ apolloClient' = 1
          /\ Len(clients') = 1
          /\ \A k \in getKeys(clients[1].cache) :
                /\ k \in getKeys(ReturnedCache)
                /\ ReturnedCache.v[k] = clients[1].cache.v[k]]_vars

\* no query ran, so the entity came from the snapshot of an earlier call
C12_Witness ==
    /\ InClient
    /\ lastArg = Undefined
    /\ nQueries = 0
    /\ ret = 1
    /\ apolloClient = 1
    /\ clients[1].cache =
          Obj("Post:1" :> Obj([title |-> Str("B"), list |-> Arr(<<9>>), body |-> Str("X")]))

\* C13: on the server no client is ever memoized, and every initializeApollo
\* call returns a client constructed by that call: it is none of the clients
\* that existed before, it is not the memoized singleton, and the snapshot is
\* merged into its (until then empty) cache and into no other.
C13_ServerAlwaysFresh ==
    [][InServer =>
          /\ apolloClient' = 0
          /\ CallStep =>
                /\ ret' \notin 1..Len(clients)
                /\ ret' # apolloClient'
                /\ clients'[ret'].ssrMode
                /\ \A i \in 1..Len(clients) : clients'[i].cache = clients[i].cache]_vars

C13_Witness ==
    /\ InServer
    /\ apolloClient = 0
    /\ Len(clients) = 2
    /\ ret = 2
    /\ nQueries = 1
    /\ clients[1].cache = Obj("list" :> Arr(<<1, 2, 3>>))
    /\ lastArg = Obj("list" :> Arr(<<9>>))
    /\ clients[2].cache = Obj("list" :> Arr(<<9>>))

\* C15: once the module has loaded, the endpoint is a non-empty string, it is
\* the public variable when that is set and the server-only variable
\* otherwise, and every client ever constructed is bound to exactly that
\* endpoint.
C15_ClientsBoundToEndpoint ==
    pc = "ready" =>
        /\ Truthy(API_URL)
        /\ API_URL = IF env.NEXT_PUBLIC_WORDPRESS_API_URL # Undefined
                     THEN env.NEXT_PUBLIC_WORDPRESS_API_URL
                     ELSE env.WORDPRESS_API_URL
        /\ \A i \in 1..Len(clients) : clients[i].uri = API_URL

C15_Witness ==
    /\ pc = "ready"
    /\ Len(clients) = 2
    /\ env.NEXT_PUBLIC_WORDPRESS_API_URL = Str("https://public/graphql")
    /\ env.WORDPRESS_API_URL = Str("https://server/graphql")
    /\ clients[1].uri = Str("https://public/graphql")
    /\ clients[2].uri = Str("https://public/graphql")

RECURSIVE CachedKept(_, _)
\* every key of e is a key of m, and every scalar of e is the same scalar in m
CachedKept(e, m) ==
    IF e.t = "s" THEN m = e
    ELSE IF e.t = "o"
         THEN /\ m.t = "o"
              /\ \A k \in getKeys(e) : k \in getKeys(m) /\ CachedKept(e.v[k], m.v[k])
         ELSE TRUE

\* C17: in the browser no initializeApollo call removes a key from the
\* singleton's cache, and a scalar already cached (directly under a key or in
\* a field of a cached object) keeps its value whatever the snapshot holds.
C17_CacheOnlyGrows ==
    [][(InClient /\ CallStep /\ Len(clients) >= 1) =>
          /\ ret' = 1
          /\ CachedKept(clients[1].cache, clients'[1].cache)]_vars

C17_Witness ==
    /\ InClient
    /\ ret = 1
    /\ nQueries = 2
    /\ lastArg = Obj(("list" :> Str("B")) @@
                     ("Post:1" :> Obj([title |-> Str("B"), list |-> Arr(<<9>>), body |-> Str("X")])))
    /\ clients[1].cache =
          Obj(("list" :> Str("A")) @@
              ("Post:1" :> Obj([title |-> Str("A"), list |-> Arr(<<1, 2, 3>>), body |-> Str("X")])))

----------------------------------------------------------------------------
(* Properties of addApolloState and useApollo *)

\* a step of addApolloState that changed the state
EmbedStep == pageOp' = "embed" /\ pageVars' # pageVars

\* a step of useApollo that changed the state (no query: those count up nQueries)
RenderStep ==
    pageOp' \in {"computed", "memoized"} /\ vars' # vars /\ nQueries' = nQueries

\* the structure holds an object under props
PropsExist(pp) == pp.t = "o" /\ "props" \in DOMAIN pp.v /\ pp.v["props"].t = "o"

\* C11: addApolloState returns the structure it was given; when the structure
\* has props, props['__APOLLO_STATE__'] of it now holds the cache of the
\* client (empty if nothing was queried); when it has none, the structure is
\* as it was and holds no snapshot it did not hold before.
C11_EmbedWritesSnapshot ==
    [][EmbedStep =>
          /\ embedRet' = pageProps'
          /\ IF PropsExist(embedArg')
             THEN /\ PropsExist(pageProps')
                  /\ "__APOLLO_STATE__" \in DOMAIN pageProps'.v["props"].v
                  /\ pageProps'.v["props"].v["__APOLLO_STATE__"] = clients[embedClient'].cache
             ELSE pageProps' = embedArg']_vars

C11_Witness ==
    /\ pageOp = "embed"
    /\ embedArg = Obj([props |-> EmptyObj, revalidate |-> Str("1")])
    /\ embedClient = 1
    /\ clients[1].cache = Obj([list |-> Arr(<<1, 2, 3>>)])
    /\ embedRet = Obj([props |-> Obj("__APOLLO_STATE__" :> Obj([list |-> Arr(<<1, 2, 3>>)])),
                       revalidate |-> Str("1")])

\* C14: a render with the props object of the last computation calls
\* initializeApollo not at all and returns the client of that computation;
\* initializeApollo is called only on the first render or with another props
\* object, and then with the snapshot found under '__APOLLO_STATE__'.
C14_HookMemoizesOnSnapshot ==
    [][RenderStep =>
          LET called == <<clients, apolloClient, lastArg, ret, prims, repeat>>' #
                        <<clients, apolloClient, lastArg, ret, prims, repeat>>
          IN  /\ (hook.mounted /\ hook.gen = pagePropsIn.gen) =>
                    (~called /\ hook' = hook /\ pageOp' = "memoized")
              /\ called => (~hook.mounted \/ hook.gen # pagePropsIn.gen)
              /\ pageOp' = "computed" =>
                    /\ lastArg' = get(pagePropsIn.val, "__APOLLO_STATE__")
                    /\ hook'.value = ret'
                    /\ hook'.gen = pagePropsIn.gen]_vars

C14_Witness ==
    /\ pageOp = "memoized"
    /\ hook.mounted
    /\ hook.gen = 2
    /\ pagePropsIn.gen = 2
    /\ hook.state = Obj([list |-> Arr(<<9>>)])
    /\ lastArg = hook.state
    /\ ~repeat
    /\ hook.value = 1
    /\ clients[1].cache = Obj([list |-> Arr(<<1, 2, 3>>)])

\* C16: when the props a server-side addApolloState call filled reach
\* useApollo in a browser whose client does not exist yet, the snapshot
\* useApollo passes on is the cache the server-side client held when it was
\* embedded, and the cache of the client it returns equals that cache.
C16_EmbedConsumeRoundTrip ==
    [][(RenderStep /\ clients = <<>> /\ pagePropsIn.gen = 1) =>
          /\ lastArg' = embedCache
          /\ hook'.value = ret'
          /\ clients'[ret'].cache = embedCache]_vars

C16_Witness ==
    /\ pageOp = "computed"
    /\ window = "object"
    /\ hook.gen = 1
    /\ embedArg = Obj([props |-> Obj([preview |-> Str("yes")]), revalidate |-> Str("1")])
    /\ embedCache = Obj(("list" :> Arr(<<1, 2, 3>>)) @@
                        ("Post:1" :> Obj([title |-> Str("A"), list |-> Arr(<<1, 2, 3>>)])))
    /\ lastArg = embedCache
    /\ clients[1].cache = embedCache

\* C19: addApolloState leaves every client (its cache included) and the
\* memoized reference as they were, and changes nothing of the structure but
\* props['__APOLLO_STATE__']: the other top-level entries and the other
\* entries of props keep their values, and a structure without props is
\* left as it was.
C19_EmbedFrame ==
    [][EmbedStep =>
          /\ UNCHANGED <<window, env, pc, API_URL, error, clients, apolloClient, lastArg,
                         ret, prims, repeat, nQueries, pagePropsIn, hook>>
          /\ IF PropsExist(embedArg')
             THEN /\ DOMAIN pageProps'.v = DOMAIN embedArg'.v
                  /\ \A k \in DOMAIN embedArg'.v \ {"props"} :
                        pageProps'.v[k] = embedArg'.v[k]
                  /\ DOMAIN pageProps'.v["props"].v =
                        DOMAIN embedArg'.v["props"].v \cup {"__APOLLO_STATE__"}
                  /\ \A k \in DOMAIN embedArg'.v["props"].v \ {"__APOLLO_STATE__"} :
                        pageProps'.v["props"].v[k] = embedArg'.v["props"].v[k]
             ELSE pageProps' = embedArg']_vars

C19_Witness ==
    /\ pageOp = "embed"
    /\ embedArg = Obj([props |-> Obj([preview |-> Str("yes")]), revalidate |-> Str("1")])
    /\ embedClient = 2
    /\ apolloClient = 0
    /\ clients[2].cache = Obj([list |-> Str("A")])
    /\ pageProps = Obj([props |-> Obj(("preview" :> Str("yes")) @@
                                      ("__APOLLO_STATE__" :> Obj([list |-> Str("A")]))),
                        revalidate |-> Str("1")])

----------------------------------------------------------------------------
(* Properties of object identity *)

RECURSIVE SharedKinds(_, _)
\* the kinds ("a", "o") of the nodes of x that are objects of the structure owner
SharedKinds(x, owner) ==
    (IF "own" \in DOMAIN x /\ x.own = owner THEN {x.t} ELSE {})
    \cup (IF x.t = "o" THEN UNION {SharedKinds(x.v[k], owner) : k \in DOMAIN x.v} ELSE {})

\* C18 as stated: what is restored into a cache is a structure separate from
\* the snapshot: no cache holds an object or array of a snapshot.
C18_CacheSeparateFromSnapshot ==
    \A i \in 1..Len(clients) : SharedKinds(clients[i].cache, "snapshot") = {}

\* C18 amended: what is restored into a cache is a new top-level object and
\* every object in it is a copy, never an object of a snapshot; the only nodes
\* a cache shares with a snapshot are arrays.
C18_OnlyArraysShared ==
    \A i \in 1..Len(clients) :
        /\ "own" \notin DOMAIN clients[i].cache
        /\ SharedKinds(clients[i].cache, "snapshot") \subseteq {"a"}

C18_Witness ==
    /\ ret # 0
    /\ lastArg = Owned(Obj(("list" :> Arr(<<9>>)) @@
                           ("Post:1" :> Obj([title |-> Str("B"), list |-> Arr(<<9>>),
                                             body |-> Str("X")]))), "snapshot")
    /\ clients[ret].cache =
          Obj(("list" :> Owned(Arr(<<9>>), "snapshot")) @@
              ("Post:1" :> Obj([title |-> Str("B"), list |-> Owned(Arr(<<9>>), "snapshot"),
                                body |-> Str("X")])))

====
